---- MODULE Spec2Model ----
(***************************************************************************)
(* Model of sistemaLoja.cpp: the in-memory Store (catalog, order ids,      *)
(* placeOrder), the SessionManager (carts per customer) and the REST       *)
(* handlers POST /cart/add, GET /cart and POST /checkout run by            *)
(* concurrent server threads.                                              *)
(*                                                                         *)
(* Prices are kept in cents (299.90 is 29990) so that totals are exact.    *)
(* The specifications share the state:                                      *)
(*   Spec      the HTTP-driven system: threads run the handlers step by    *)
(*             step, one step per access to shared state;                  *)
(*   SpecStore    direct calls of Store::placeOrder and generateOrderId    *)
(*                with arbitrary orders, from any catalog state;           *)
(*   SpecSession  direct calls of the methods of SessionManager with       *)
(*                arbitrary arguments.                                     *)
(***************************************************************************)
EXTENDS Integers, Sequences, FiniteSets, TLC

\* ---------------------------------------------------------------- bounds
NumThreads == 2
NumCustomers == 2
MaxQty == 2
MaxRequests == 4
MaxCalls == 3
MaxLines == 2
MaxStock == 2

Threads == 1..NumThreads
\* customerId values a request may carry; 0 is the invalid/default id
CustomerIds == 0..NumCustomers
\* qty values a request may carry; 0 is invalid
Qtys == 0..MaxQty

\* ------------------------------------------------------------- the catalog
\* main(): the three products added at startup
SeedProducts ==
  << [id |-> 1, name |-> "Teclado Mecanico", price |-> 29990, stock |-> 10],
     [id |-> 2, name |-> "Mouse Gamer",      price |-> 14950, stock |-> 5],
     [id |-> 3, name |-> "Monitor 24-inch",  price |-> 89900, stock |-> 2] >>

\* every productId value: 0 invalid, 1..3 seeded, 4 unknown
ProductIds == 0..(Len(SeedProducts) + 1)
\* productId values a request carries: invalid, product 1 (ample stock),
\* product 3 (scarce stock), unknown
RequestProductIds == {0, 1, 3, 4}

\* --------------------------------------------------------------- Product
\* Product::decreaseStock: the stock after the call
DecreaseStockTypo(stock, qty) ==
  IF qty <= 0 THEN stock
  ELSE IF qty > stock THEN stock
  ELSE 0 - qty

DecreaseStock(stock, qty) ==
  IF qty <= 0 THEN stock
  ELSE IF qty > stock THEN stock
  ELSE stock - qty

\* the linear scan "for (auto &pp : products) if (pp.getId()==id)": index of
\* the first product with that id, 0 for nullptr
FindProduct(prods, id) ==
  IF \E i \in 1..Len(prods) : prods[i].id = id
  THEN CHOOSE i \in 1..Len(prods) :
         /\ prods[i].id = id
         /\ \A j \in 1..(i-1) : prods[j].id # id
  ELSE 0

\* ---------------------------------------------------------------- CartItem
CartItem(productId, productName, unitPrice, qty) ==
  [productId |-> productId, productName |-> productName,
   unitPrice |-> unitPrice, qty |-> qty]

Subtotal(it) == it.unitPrice * it.qty

\* ------------------------------------------------------------------- Order
RECURSIVE CalculateTotalNoQty(_)
CalculateTotalNoQty(items) ==
  IF items = << >> THEN 0
  ELSE Head(items).unitPrice + CalculateTotalNoQty(Tail(items))

RECURSIVE CalculateTotal(_)
CalculateTotal(items) ==
  IF items = << >> THEN 0
  ELSE Subtotal(Head(items)) + CalculateTotal(Tail(items))

Order(id, items) == [id |-> id, items |-> items, total |-> CalculateTotal(items)]

NoOrder == Order(0, << >>)

\* ------------------------------------------------------ Store::placeOrder
\* first loop ("verificar estoque"): the outcome of the first failing line
RECURSIVE CheckStockStrict(_, _)
CheckStockStrict(prods, items) ==
  IF items = << >> THEN [ok |-> TRUE, err |-> "none", productId |-> 0, name |-> ""]
  ELSE LET it == Head(items)
           p  == FindProduct(prods, it.productId)
       IN IF p = 0
          THEN [ok |-> FALSE, err |-> "ProductNotFound",
                productId |-> it.productId, name |-> ""]
          ELSE IF prods[p].stock <= it.qty
          THEN [ok |-> FALSE, err |-> "InsufficientStock",
                productId |-> prods[p].id, name |-> prods[p].name]
          ELSE CheckStockStrict(prods, Tail(items))

RECURSIVE CheckStock(_, _)
CheckStock(prods, items) ==
  IF items = << >> THEN [ok |-> TRUE, err |-> "none", productId |-> 0, name |-> ""]
  ELSE LET it == Head(items)
           p  == FindProduct(prods, it.productId)
       IN IF p = 0
          THEN [ok |-> FALSE, err |-> "ProductNotFound",
                productId |-> it.productId, name |-> ""]
          ELSE IF prods[p].stock < it.qty
          THEN [ok |-> FALSE, err |-> "InsufficientStock",
                productId |-> prods[p].id, name |-> prods[p].name]
          ELSE CheckStock(prods, Tail(items))

\* second loop ("reduzir estoque"): the catalog after the decrements
ReduceStockFirstOnly(prods, items) ==
  IF items = << >> THEN prods
  ELSE LET it == Head(items)
           p  == FindProduct(prods, it.productId)
       IN IF p = 0 THEN prods
          ELSE [prods EXCEPT ![p].stock = DecreaseStock(@, it.qty)]

RECURSIVE ReduceStock(_, _)
ReduceStock(prods, items) ==
  IF items = << >> THEN prods
  ELSE LET it == Head(items)
           p  == FindProduct(prods, it.productId)
           after == IF p = 0 THEN prods
                    ELSE [prods EXCEPT ![p].stock = DecreaseStock(@, it.qty)]
       IN ReduceStock(after, Tail(items))

\* ----------------------------------------------------------- SessionManager
\* carts[customerId], which creates an empty cart when the key is absent
CartsIndex(cs, customerId) ==
  IF customerId \in DOMAIN cs THEN cs
  ELSE [x \in DOMAIN cs \cup {customerId} |->
          IF x = customerId THEN << >> ELSE cs[x]]

\* index of the first line of the cart with that productId, 0 if none
FindLine(cart, productId) ==
  IF \E i \in 1..Len(cart) : cart[i].productId = productId
  THEN CHOOSE i \in 1..Len(cart) :
         /\ cart[i].productId = productId
         /\ \A j \in 1..(i-1) : cart[j].productId # productId
  ELSE 0

\* the quantity of the cart's line for productId, 0 if it has none
LineQty(cart, productId) ==
  IF FindLine(cart, productId) = 0 THEN 0
  ELSE cart[FindLine(cart, productId)].qty

\* SessionManager::addToCart: the map after the call
AddToCartReplace(cs, customerId, item) ==
  LET m == CartsIndex(cs, customerId)
      i == FindLine(m[customerId], item.productId)
  IN IF i # 0
     THEN [m EXCEPT ![customerId][i].qty = item.qty]
     ELSE [m EXCEPT ![customerId] = Append(@, item)]

AddToCart(cs, customerId, item) ==
  LET m == CartsIndex(cs, customerId)
      i == FindLine(m[customerId], item.productId)
  IN IF i # 0
     THEN [m EXCEPT ![customerId][i].qty = @ + item.qty]
     ELSE [m EXCEPT ![customerId] = Append(@, item)]

\* SessionManager::getCart: the value returned (a copy of carts[customerId])
GetCart(cs, customerId) == CartsIndex(cs, customerId)[customerId]

\* SessionManager::clearCart: the map after carts.erase(customerId)
ClearCartAll(cs, customerId) == [x \in {} |-> << >>]

ClearCart(cs, customerId) == [x \in DOMAIN cs \ {customerId} |-> cs[x]]

\* ------------------------------------------------------------------- state
VARIABLES
  products,     \* Store::products, the vector of Product
  nextOrderId,  \* Store::nextOrderId
  storeMtx,     \* Store::mtx: the thread holding it, 0 when free
  carts,        \* SessionManager::carts, customerId -> vector<CartItem>
  th,           \* per thread: position in its handler and the handler's locals
  res,          \* the response sent last and the thread that sent it
  nreq,         \* number of requests (Spec) or direct calls made so far
  allocated,    \* history: the values returned by generateOrderId, in order
  orders,       \* history: the orders whose placeOrder returned true
  added,        \* history: per customer and product, the addToCart calls
                \* made since the customer's last clearCart: count and qty sum
  overlap,      \* history: per thread, whether its request has run while
                \* another request of the same customer was in flight
  call,         \* direct calls: the last call made and what it returned
  sessMtx,      \* SessionManager::mtx: the thread holding it, 0 when free
  hist          \* history of the customers: dropped, the quantities a
                \* checkout's clearCart erased beyond the cart it had read;
                \* failed, per customer the checkouts that failed with
                \* InsufficientStock; raced, the customers two of whose
                \* requests have been in flight together

vars == << products, nextOrderId, storeMtx, carts, th, res, nreq,
           allocated, orders, added, overlap, call, sessMtx, hist >>

NoItem == CartItem(0, "", 0, 0)

\* a thread outside any handler; the locals of the handlers at their defaults
Idle == [pc |-> "idle", customerId |-> 0, productId |-> 0, qty |-> 0,
         p |-> 0, item |-> NoItem, cart |-> << >>, order |-> NoOrder]

\* the product a response carries when it carries none
NoProduct == [id |-> 0, name |-> "", price |-> 0, stock |-> 0]

Response(status, kind, order) ==
  [t |-> 0, status |-> status, kind |-> kind, order |-> order,
   product |-> NoProduct]

NoRes == Response(0, "none", NoOrder)

\* a call: the method, its arguments, what it returned (ok and err of
\* placeOrder, the value of getCart or generateOrderId), and for the calls of
\* SessionManager the customer's cart before the call and the call made
\* just before it
NoCall == [op |-> "none", customerId |-> 0, items |-> << >>, ok |-> TRUE,
           err |-> "none", value |-> << >>, id |-> 0,
           before |-> << >>, prevOp |-> "none", prevCustomerId |-> 0]

NoHist == [dropped |-> {}, failed |-> [c \in CustomerIds |-> 0], raced |-> {}]

NoAdds == [c \in CustomerIds |-> [p \in ProductIds |-> [n |-> 0, sum |-> 0]]]

\* main(): Store and SessionManager constructed, the catalog seeded
Init ==
  /\ products = SeedProducts
  /\ nextOrderId = 1
  /\ storeMtx = 0
  /\ carts = [x \in {} |-> << >>]
  /\ th = [t \in Threads |-> Idle]
  /\ res = NoRes
  /\ nreq = 0
  /\ allocated = << >>
  /\ orders = << >>
  /\ added = NoAdds
  /\ overlap = [t \in Threads |-> FALSE]
  /\ call = NoCall
  /\ sessMtx = 0
  /\ hist = NoHist

\* the threads whose request in flight is for customer c
InFlight(c) ==
  {u \in Threads : /\ th[u].pc \notin {"idle", "prod_find", "prod_find_locked",
                                         "prod_json"}
                   /\ th[u].customerId = c}

\* a request of thread t for customer c starts
Begin(t, c) ==
  /\ th[t].pc = "idle"
  /\ nreq < MaxRequests
  /\ nreq' = nreq + 1
  /\ overlap' = [u \in Threads |->
                   IF u = t THEN InFlight(c) # {}
                   ELSE overlap[u] \/ u \in InFlight(c)]
  /\ hist' = [hist EXCEPT !.raced = IF InFlight(c) # {} THEN @ \cup {c} ELSE @]

Finish(t, r) ==
  /\ th' = [th EXCEPT ![t] = Idle]
  /\ res' = [r EXCEPT !.t = t]

\* ------------------------------------------------------------ GET /product
\* the ids asked for: a product of the catalog and an unknown one
QueryProductIds == {3, 4}

\* has_param("id"), and Product *p = store.findProductById(id), under the
\* Store mutex
StartGetProduct(t, has, id) ==
  /\ th[t].pc = "idle"
  /\ nreq < MaxRequests
  /\ nreq' = nreq + 1
  /\ IF ~has
     THEN Finish(t, Response(400, "MissingParameter", NoOrder))
     ELSE /\ storeMtx = 0
          /\ LET f == FindProduct(products, id)
             IN IF f = 0
                THEN Finish(t, Response(404, "ProductNotFound", NoOrder))
                ELSE /\ th' = [th EXCEPT ![t] = [Idle EXCEPT !.pc = "prod_json",
                                 !.productId = id, !.p = f]]
                     /\ UNCHANGED res
  /\ UNCHANGED << products, nextOrderId, storeMtx, carts, allocated, orders,
                  added, overlap, call, sessMtx, hist >>

\* res.set_content(p->toJson().dump(), ...): *p read outside the mutex
GetProductJson(t) ==
  /\ th[t].pc = "prod_json"
  /\ Finish(t, [Response(200, "product", NoOrder)
                  EXCEPT !.product = products[th[t].p]])
  /\ UNCHANGED << products, nextOrderId, storeMtx, carts, nreq, allocated,
                  orders, added, overlap, call, sessMtx, hist >>

\* -------------------------------------------------------- POST /cart/add
\* parse the body, validate the parameters, and
\* Product *p = store.findProductById(productId), under the Store mutex
StartAdd(t, c, p, q) ==
  /\ Begin(t, c)
  /\ IF c <= 0 \/ p <= 0 \/ q <= 0
     THEN Finish(t, Response(400, "InvalidParameter", NoOrder))
     ELSE /\ storeMtx = 0
          /\ LET f == FindProduct(products, p)
             IN IF f = 0
                THEN Finish(t, Response(404, "ProductNotFound", NoOrder))
                ELSE /\ th' = [th EXCEPT ![t] = [Idle EXCEPT !.pc = "add_stock",
                                 !.customerId = c, !.productId = p, !.qty = q,
                                 !.p = f]]
                     /\ UNCHANGED res
  /\ UNCHANGED << products, nextOrderId, storeMtx, carts, allocated, orders,
                  added, call, sessMtx >>

\* p->getStock() <= 0 and the CartItem built from *p, outside the mutex
AddStock(t) ==
  /\ th[t].pc = "add_stock"
  /\ LET p == products[th[t].p]
     IN IF p.stock <= 0
        THEN Finish(t, Response(400, "OutOfStock", NoOrder))
        ELSE /\ th' = [th EXCEPT ![t].pc = "add_cart",
                         ![t].item = CartItem(p.id, p.name, p.price, th[t].qty)]
             /\ UNCHANGED res
  /\ UNCHANGED << products, nextOrderId, storeMtx, carts, nreq, allocated,
                  orders, added, overlap, call, sessMtx, hist >>

\* the history of addToCart calls after one more call
Added(c, item) ==
  [added EXCEPT ![c][item.productId] =
     [n |-> @.n + 1, sum |-> @.sum + item.qty]]

\* sessions.addToCart(customerId, item) and the {"ok":true} response
AddCart(t) ==
  /\ th[t].pc = "add_cart"
  /\ carts' = AddToCart(carts, th[t].customerId, th[t].item)
  /\ added' = Added(th[t].customerId, th[t].item)
  /\ Finish(t, Response(200, "ok", NoOrder))
  /\ UNCHANGED << products, nextOrderId, storeMtx, nreq, allocated, orders,
                  overlap, call, sessMtx, hist >>

\* --------------------------------------------------------------- GET /cart
\* sessions.getCart(customerId) and the response with the subtotal
HandleGetCart(t, c) ==
  /\ Begin(t, c)
  /\ carts' = CartsIndex(carts, c)
  /\ Finish(t, Response(200, "cart", Order(0, GetCart(carts, c))))
  /\ UNCHANGED << products, nextOrderId, storeMtx, allocated, orders, added,
                  call, sessMtx >>

\* ---------------------------------------------------------- POST /checkout
\* parse the body, validate customerId, and
\* auto cart = sessions.getCart(customerId); if (cart.empty()) 400
StartCheckout(t, c) ==
  /\ Begin(t, c)
  /\ IF c <= 0
     THEN /\ Finish(t, Response(400, "InvalidParameter", NoOrder))
          /\ UNCHANGED carts
     ELSE /\ carts' = CartsIndex(carts, c)
          /\ LET cart == GetCart(carts, c)
             IN IF cart = << >>
                THEN Finish(t, Response(400, "EmptyCart", NoOrder))
                ELSE /\ th' = [th EXCEPT ![t] = [Idle EXCEPT !.pc = "co_id",
                                 !.customerId = c, !.cart = cart]]
                     /\ UNCHANGED res
  /\ UNCHANGED << products, nextOrderId, storeMtx, allocated, orders,
                  added, call, sessMtx >>

\* Store::generateOrderId: the value returned and the counter after it
GenerateOrderIdStale(n) == [id |-> n, next |-> n]

GenerateOrderId(n) == [id |-> n, next |-> n + 1]

\* int orderId = store.generateOrderId(); Order order(orderId, cart);
CheckoutOrderId(t) ==
  /\ th[t].pc = "co_id"
  /\ storeMtx = 0
  /\ LET g == GenerateOrderId(nextOrderId)
     IN /\ nextOrderId' = g.next
        /\ allocated' = Append(allocated, g.id)
        /\ th' = [th EXCEPT ![t].pc = "co_place",
                    ![t].order = Order(g.id, th[t].cart)]
  /\ UNCHANGED << products, storeMtx, carts, res, nreq, orders, added,
                  overlap, call, sessMtx, hist >>

\* Store::placeOrder takes the mutex: whether thread t may enter
PlaceOrderNoLock(t) == TRUE

PlaceOrderLock(t) == storeMtx = 0

\* the history after a checkout of customer c failed with err
Failed(c, err) ==
  IF err = "InsufficientStock" THEN [hist EXCEPT !.failed[c] = @ + 1] ELSE hist

\* the history after a checkout of customer c that had read the lines in
\* cart erases the lines in now: what the cart had gained is dropped
Dropped(c, cart, now) ==
  [hist EXCEPT !.dropped = @ \cup
     { [customerId |-> c, productId |-> now[i].productId,
        qty |-> now[i].qty - LineQty(cart, now[i].productId)] :
         i \in { j \in 1..Len(now) :
                   now[j].qty > LineQty(cart, now[j].productId) } }]

\* store.placeOrder(order, err): lock and the first loop; on failure the
\* mutex is released and the 400 response carries err
CheckoutPlaceOrderClears(t) ==
  /\ th[t].pc = "co_place"
  /\ PlaceOrderLock(t)
  /\ LET c == CheckStock(products, th[t].order.items)
     IN IF c.ok
        THEN /\ storeMtx' = t
             /\ th' = [th EXCEPT ![t].pc = "co_apply"]
             /\ UNCHANGED << res, carts, added, hist >>
        ELSE /\ storeMtx' = storeMtx
             /\ hist' = Failed(th[t].customerId, c.err)
             /\ carts' = ClearCart(carts, th[t].customerId)
             /\ added' = [added EXCEPT ![th[t].customerId] = NoAdds[th[t].customerId]]
             /\ Finish(t, Response(400, c.err, NoOrder))
  /\ UNCHANGED << products, nextOrderId, nreq, allocated, orders,
                  overlap, call, sessMtx >>

CheckoutPlaceOrder(t) ==
  /\ th[t].pc = "co_place"
  /\ PlaceOrderLock(t)
  /\ LET c == CheckStock(products, th[t].order.items)
     IN IF c.ok
        THEN /\ storeMtx' = t
             /\ th' = [th EXCEPT ![t].pc = "co_apply"]
             /\ UNCHANGED << res, hist >>
        ELSE /\ storeMtx' = storeMtx
             /\ hist' = Failed(th[t].customerId, c.err)
             /\ Finish(t, Response(400, c.err, NoOrder))
  /\ UNCHANGED << products, nextOrderId, carts, nreq, allocated, orders,
                  added, overlap, call, sessMtx >>

\* store.placeOrder, the second loop, return true and unlock
CheckoutReduceStock(t) ==
  /\ th[t].pc = "co_apply"
  /\ products' = ReduceStock(products, th[t].order.items)
  /\ storeMtx' = 0
  /\ orders' = Append(orders, th[t].order)
  /\ th' = [th EXCEPT ![t].pc = "co_clear"]
  /\ UNCHANGED << nextOrderId, carts, res, nreq, allocated, added, overlap,
                  call, sessMtx, hist >>

\* sessions.clearCart(customerId) and the response with the order
CheckoutClearCartIfSame(t) ==
  /\ th[t].pc = "co_clear"
  /\ carts' = IF GetCart(carts, th[t].customerId) = th[t].cart
              THEN ClearCart(carts, th[t].customerId) ELSE carts
  /\ added' = [added EXCEPT ![th[t].customerId] = NoAdds[th[t].customerId]]
  /\ hist' = Dropped(th[t].customerId, th[t].cart,
                     GetCart(carts, th[t].customerId))
  /\ Finish(t, Response(200, "order", th[t].order))
  /\ UNCHANGED << products, nextOrderId, storeMtx, nreq, allocated, orders,
                  overlap, call, sessMtx >>

CheckoutClearCart(t) ==
  /\ th[t].pc = "co_clear"
  /\ carts' = ClearCart(carts, th[t].customerId)
  /\ added' = [added EXCEPT ![th[t].customerId] = NoAdds[th[t].customerId]]
  /\ hist' = Dropped(th[t].customerId, th[t].cart,
                     GetCart(carts, th[t].customerId))
  /\ Finish(t, Response(200, "order", th[t].order))
  /\ UNCHANGED << products, nextOrderId, storeMtx, nreq, allocated, orders,
                  overlap, call, sessMtx >>

Next ==
  \/ \E t \in Threads, has \in BOOLEAN, id \in QueryProductIds :
       StartGetProduct(t, has, id)
  \/ \E t \in Threads : GetProductJson(t)
  \/ \E t \in Threads, c \in CustomerIds, p \in RequestProductIds, q \in Qtys :
       StartAdd(t, c, p, q)
  \/ \E t \in Threads : AddStock(t)
  \/ \E t \in Threads : AddCart(t)
  \/ \E t \in Threads, c \in CustomerIds : HandleGetCart(t, c)
  \/ \E t \in Threads, c \in CustomerIds : StartCheckout(t, c)
  \/ \E t \in Threads : CheckoutOrderId(t)
  \/ \E t \in Threads : CheckoutPlaceOrder(t)
  \/ \E t \in Threads : CheckoutReduceStock(t)
  \/ \E t \in Threads : CheckoutClearCart(t)

Spec == Init /\ [][Next]_vars

\* ------------------------------------------------- the handlers lock by lock
\* The same handlers with every lock_guard as two steps: the thread takes the
\* mutex (it waits while another thread holds it), then runs the body of the
\* method and releases the mutex at its end. A pc named x is the thread about
\* to call the method, x_locked the thread inside it, holding the mutex.
StoreLockPcs == {"add_find", "prod_find", "co_id", "co_place"}

SessionLockPcs == {"add_cart", "cart", "co_cart", "co_clear"}

Locked(pc) ==
  CASE pc = "add_find" -> "add_find_locked"
    [] pc = "prod_find" -> "prod_find_locked"
    [] pc = "co_id" -> "co_id_locked"
    [] pc = "co_place" -> "co_place_locked"
    [] pc = "add_cart" -> "add_cart_locked"
    [] pc = "cart" -> "cart_locked"
    [] pc = "co_cart" -> "co_cart_locked"
    [] pc = "co_clear" -> "co_clear_locked"

\* the requests made of the lock-by-lock handlers
LockCustomerIds == CustomerIds

LockProductIds == {3, 4}

LockQtys == {MaxQty}

\* ~lock_guard(): the holder of the mutex after thread t leaves the scope
UnlockStoreNever(t) == t

UnlockStore(t) == 0

UnlockSessionsNever(t) == t

UnlockSessions(t) == 0

\* POST /cart/add: the body parsed and the parameters validated
RequestAdd(t, c, p, q) ==
  /\ Begin(t, c)
  /\ IF c <= 0 \/ p <= 0 \/ q <= 0
     THEN Finish(t, Response(400, "InvalidParameter", NoOrder))
     ELSE /\ th' = [th EXCEPT ![t] = [Idle EXCEPT !.pc = "add_find",
                      !.customerId = c, !.productId = p, !.qty = q]]
          /\ UNCHANGED res
  /\ UNCHANGED << products, nextOrderId, storeMtx, carts, allocated, orders,
                  added, call, sessMtx >>

\* GET /product: has_param("id") and stoi
RequestProduct(t, has, id) ==
  /\ th[t].pc = "idle"
  /\ nreq < MaxRequests
  /\ nreq' = nreq + 1
  /\ IF ~has
     THEN Finish(t, Response(400, "MissingParameter", NoOrder))
     ELSE /\ th' = [th EXCEPT ![t] = [Idle EXCEPT !.pc = "prod_find",
                      !.productId = id]]
          /\ UNCHANGED res
  /\ UNCHANGED << products, nextOrderId, storeMtx, carts, allocated, orders,
                  added, overlap, call, sessMtx, hist >>

\* GET /cart: customerId read from the query string
RequestCart(t, c) ==
  /\ Begin(t, c)
  /\ th' = [th EXCEPT ![t] = [Idle EXCEPT !.pc = "cart", !.customerId = c]]
  /\ UNCHANGED << products, nextOrderId, storeMtx, carts, res, allocated,
                  orders, added, call, sessMtx >>

\* POST /checkout: the body parsed and customerId validated
RequestCheckout(t, c) ==
  /\ Begin(t, c)
  /\ IF c <= 0
     THEN Finish(t, Response(400, "InvalidParameter", NoOrder))
     ELSE /\ th' = [th EXCEPT ![t] = [Idle EXCEPT !.pc = "co_cart",
                      !.customerId = c]]
          /\ UNCHANGED res
  /\ UNCHANGED << products, nextOrderId, storeMtx, carts, allocated, orders,
                  added, call, sessMtx >>

\* lock_guard<mutex> lock(mtx) of a Store method
LockStore(t) ==
  /\ th[t].pc \in StoreLockPcs
  /\ storeMtx = 0
  /\ storeMtx' = t
  /\ th' = [th EXCEPT ![t].pc = Locked(@)]
  /\ UNCHANGED << products, nextOrderId, carts, res, nreq, allocated, orders,
                  added, overlap, call, sessMtx, hist >>

\* lock_guard<mutex> lock(mtx) of a SessionManager method
LockSessions(t) ==
  /\ th[t].pc \in SessionLockPcs
  /\ sessMtx = 0
  /\ sessMtx' = t
  /\ th' = [th EXCEPT ![t].pc = Locked(@)]
  /\ UNCHANGED << products, nextOrderId, storeMtx, carts, res, nreq,
                  allocated, orders, added, overlap, call, hist >>

\* Store::findProductById inside the lock: the loop over products, the
\* pointer returned, the mutex released; the handler's 404 when it is null
FindProductById(t) ==
  /\ th[t].pc \in {"add_find_locked", "prod_find_locked"}
  /\ storeMtx' = UnlockStore(t)
  /\ LET f == FindProduct(products, th[t].productId)
     IN IF f = 0
        THEN Finish(t, Response(404, "ProductNotFound", NoOrder))
        ELSE /\ th' = [th EXCEPT
                         ![t].pc = IF @ = "add_find_locked" THEN "add_stock"
                                   ELSE "prod_json",
                         ![t].p = f]
             /\ UNCHANGED res
  /\ UNCHANGED << products, nextOrderId, carts, nreq, allocated, orders,
                  added, overlap, call, sessMtx, hist >>

\* SessionManager::addToCart inside the lock, and the {"ok":true} response
AddToCartLocked(t) ==
  /\ th[t].pc = "add_cart_locked"
  /\ carts' = AddToCart(carts, th[t].customerId, th[t].item)
  /\ added' = Added(th[t].customerId, th[t].item)
  /\ sessMtx' = UnlockSessions(t)
  /\ Finish(t, Response(200, "ok", NoOrder))
  /\ UNCHANGED << products, nextOrderId, storeMtx, nreq, allocated, orders,
                  overlap, call, hist >>

\* SessionManager::getCart inside the lock, and the response of GET /cart
GetCartLocked(t) ==
  /\ th[t].pc = "cart_locked"
  /\ carts' = CartsIndex(carts, th[t].customerId)
  /\ sessMtx' = UnlockSessions(t)
  /\ Finish(t, Response(200, "cart",
                        Order(0, GetCart(carts, th[t].customerId))))
  /\ UNCHANGED << products, nextOrderId, storeMtx, nreq, allocated, orders,
                  added, overlap, call, hist >>

\* SessionManager::getCart inside the lock, called by the checkout, and
\* if (cart.empty()) 400
CheckoutGetCart(t) ==
  /\ th[t].pc = "co_cart_locked"
  /\ carts' = CartsIndex(carts, th[t].customerId)
  /\ sessMtx' = UnlockSessions(t)
  /\ LET cart == GetCart(carts, th[t].customerId)
     IN IF cart = << >>
        THEN Finish(t, Response(400, "EmptyCart", NoOrder))
        ELSE /\ th' = [th EXCEPT ![t].pc = "co_id", ![t].cart = cart]
             /\ UNCHANGED res
  /\ UNCHANGED << products, nextOrderId, storeMtx, nreq, allocated, orders,
                  added, overlap, call, hist >>

\* Store::generateOrderId inside the lock; Order order(orderId, cart)
GenerateOrderIdLocked(t) ==
  /\ th[t].pc = "co_id_locked"
  /\ storeMtx' = UnlockStore(t)
  /\ LET g == GenerateOrderId(nextOrderId)
     IN /\ nextOrderId' = g.next
        /\ allocated' = Append(allocated, g.id)
        /\ th' = [th EXCEPT ![t].pc = "co_place",
                    ![t].order = Order(g.id, th[t].cart)]
  /\ UNCHANGED << products, carts, res, nreq, orders, added, overlap, call,
                  sessMtx, hist >>

\* Store::placeOrder inside the lock, the first loop: on failure the mutex
\* is released and the 400 response carries err, else the second loop follows
PlaceOrderCheck(t) ==
  /\ th[t].pc = "co_place_locked"
  /\ LET c == CheckStock(products, th[t].order.items)
     IN IF c.ok
        THEN /\ th' = [th EXCEPT ![t].pc = "co_apply"]
             /\ UNCHANGED << storeMtx, res, hist >>
        ELSE /\ storeMtx' = UnlockStore(t)
             /\ hist' = Failed(th[t].customerId, c.err)
             /\ Finish(t, Response(400, c.err, NoOrder))
  /\ UNCHANGED << products, nextOrderId, carts, nreq, allocated, orders,
                  added, overlap, call, sessMtx >>

\* SessionManager::clearCart inside the lock, and the response with the order
ClearCartLocked(t) ==
  /\ th[t].pc = "co_clear_locked"
  /\ carts' = ClearCart(carts, th[t].customerId)
  /\ added' = [added EXCEPT ![th[t].customerId] = NoAdds[th[t].customerId]]
  /\ hist' = Dropped(th[t].customerId, th[t].cart,
                     GetCart(carts, th[t].customerId))
  /\ sessMtx' = UnlockSessions(t)
  /\ Finish(t, Response(200, "order", th[t].order))
  /\ UNCHANGED << products, nextOrderId, storeMtx, nreq, allocated, orders,
                  overlap, call >>

\* the steps of thread t inside a handler
Run(t) ==
  \/ LockStore(t)
  \/ LockSessions(t)
  \/ FindProductById(t)
  \/ AddStock(t)
  \/ GetProductJson(t)
  \/ AddToCartLocked(t)
  \/ GetCartLocked(t)
  \/ CheckoutGetCart(t)
  \/ GenerateOrderIdLocked(t)
  \/ PlaceOrderCheck(t)
  \/ CheckoutReduceStock(t)
  \/ ClearCartLocked(t)

NextLocks ==
  \/ \E t \in Threads, c \in LockCustomerIds, p \in LockProductIds,
        q \in LockQtys : RequestAdd(t, c, p, q)
  \/ \E t \in Threads, has \in BOOLEAN, id \in LockProductIds :
       RequestProduct(t, has, id)
  \/ \E t \in Threads, c \in LockCustomerIds : RequestCart(t, c)
  \/ \E t \in Threads, c \in LockCustomerIds : RequestCheckout(t, c)
  \/ \E t \in Threads : Run(t)

SpecLocks == Init /\ [][NextLocks]_vars

\* every thread inside a handler keeps being scheduled
SpecLocksFair == SpecLocks /\ \A t \in Threads : WF_vars(Run(t))

\* ------------------------------------------------------------ direct calls
\* the arguments of the calls: the items (catalog products 1 and 3 and the
\* unknown product 4, any qty from -1 up), the orders made of them, and the
\* items given to addToCart (two products)
CoreItems ==
  { CartItem(p, IF p = 4 THEN "Desconhecido" ELSE SeedProducts[p].name,
                IF p = 4 THEN 100 ELSE SeedProducts[p].price, q) :
      p \in {1, 3, 4}, q \in (0 - 1)..MaxQty }

SessionItems == { it \in CoreItems : it.productId \in {1, 3} }

CoreOrders ==
  UNION { [1..n -> CoreItems] : n \in 0..MaxLines }

\* any catalog state of the seeded products: every stock from 0 up
CoreCatalogs ==
  { [i \in 1..Len(SeedProducts) |-> [SeedProducts[i] EXCEPT !.stock = st[i]]] :
      st \in [1..Len(SeedProducts) -> 0..MaxStock] }

InitCore ==
  /\ products \in CoreCatalogs
  /\ nextOrderId = 1
  /\ storeMtx = 0
  /\ carts = [x \in {} |-> << >>]
  /\ th = [t \in Threads |-> Idle]
  /\ res = NoRes
  /\ nreq = 0
  /\ allocated = << >>
  /\ orders = << >>
  /\ added = NoAdds
  /\ overlap = [t \in Threads |-> FALSE]
  /\ call = NoCall
  /\ sessMtx = 0
  /\ hist = NoHist

Called ==
  /\ nreq < MaxCalls
  /\ nreq' = nreq + 1
  /\ UNCHANGED << storeMtx, th, res, orders, overlap, sessMtx, hist >>

\* Store::placeOrder as a whole: what it returns and the catalog after it
PlaceOrder(prods, items) ==
  LET c == CheckStock(prods, items)
  IN [ok |-> c.ok, err |-> c.err, productId |-> c.productId, name |-> c.name,
      products |-> IF c.ok THEN ReduceStock(prods, items) ELSE prods]

CallPlaceOrder(items) ==
  /\ Called
  /\ LET r == PlaceOrder(products, items)
     IN /\ products' = r.products
        /\ call' = [NoCall EXCEPT !.op = "placeOrder", !.items = items,
                      !.ok = r.ok, !.err = r.err]
  /\ UNCHANGED << nextOrderId, carts, allocated, added >>

CallGenerateOrderId ==
  /\ Called
  /\ LET g == GenerateOrderId(nextOrderId)
     IN /\ nextOrderId' = g.next
        /\ allocated' = Append(allocated, g.id)
        /\ call' = [NoCall EXCEPT !.op = "generateOrderId", !.id = g.id]
  /\ UNCHANGED << products, carts, added >>

CallAddToCart(c, item) ==
  /\ Called
  /\ carts' = AddToCart(carts, c, item)
  /\ added' = Added(c, item)
  /\ call' = [NoCall EXCEPT !.op = "addToCart", !.customerId = c,
                !.before = GetCart(carts, c),
                !.prevOp = call.op, !.prevCustomerId = call.customerId,
                !.items = << item >>]
  /\ UNCHANGED << products, nextOrderId, allocated >>

CallGetCart(c) ==
  /\ Called
  /\ carts' = CartsIndex(carts, c)
  /\ call' = [NoCall EXCEPT !.op = "getCart", !.customerId = c,
                !.before = GetCart(carts, c),
                !.prevOp = call.op, !.prevCustomerId = call.customerId,
                !.value = GetCart(carts, c)]
  /\ UNCHANGED << products, nextOrderId, allocated, added >>

CallClearCart(c) ==
  /\ Called
  /\ carts' = ClearCart(carts, c)
  /\ added' = [added EXCEPT ![c] = NoAdds[c]]
  /\ call' = [NoCall EXCEPT !.op = "clearCart", !.customerId = c,
                !.before = GetCart(carts, c),
                !.prevOp = call.op, !.prevCustomerId = call.customerId]
  /\ UNCHANGED << products, nextOrderId, allocated >>

\* calls of the Store's methods, from any catalog state
NextStore ==
  \/ \E o \in CoreOrders : CallPlaceOrder(o)
  \/ CallGenerateOrderId

SpecStore == InitCore /\ [][NextStore]_vars

\* calls of the SessionManager's methods, from the state after construction
NextSession ==
  \/ \E c \in CustomerIds, item \in SessionItems : CallAddToCart(c, item)
  \/ \E c \in CustomerIds : CallGetCart(c)
  \/ \E c \in CustomerIds : CallClearCart(c)

SpecSession == Init /\ [][NextSession]_vars

\* ================================================================ claims

\* the quantity an order asks of product id: the sum over its lines
RECURSIVE QtyOf(_, _)
QtyOf(items, id) ==
  IF items = << >> THEN 0
  ELSE (IF Head(items).productId = id THEN Head(items).qty ELSE 0)
       + QtyOf(Tail(items), id)

\* the catalog with every line of the order taken out of its product's stock
AllDecremented(prods, items) ==
  [i \in 1..Len(prods) |->
     [prods[i] EXCEPT !.stock = @ - QtyOf(items, prods[i].id)]]

\* the step is a direct call of the method op
IsCall(op) == nreq' = nreq + 1 /\ call'.op = op

\* C1: a placeOrder call either decrements the stock of every line's product
\* by that line's quantity or leaves every stock unchanged, and a call that
\* returns failure changes no stock.
C1_PlaceOrderAllOrNothing ==
  [][ IsCall("placeOrder") =>
        /\ \/ products' = AllDecremented(products, call'.items)
           \/ products' = products
        /\ ~call'.ok => products' = products ]_vars

\* the units of product id in the orders whose placeOrder returned true
RECURSIVE Sold(_, _)
Sold(os, id) ==
  IF os = << >> THEN 0
  ELSE QtyOf(Head(os).items, id) + Sold(Tail(os), id)

\* C2: no oversell: at most one thread is between the validation and the
\* decrements of placeOrder, it holds the Store mutex, and the successful
\* orders never take more units of a product than the catalog started with.
C2_NoOversell ==
  /\ \A t, u \in Threads :
       th[t].pc = "co_apply" /\ th[u].pc = "co_apply" => t = u
  /\ \A t \in Threads : th[t].pc = "co_apply" <=> storeMtx = t
  /\ \A i \in 1..Len(SeedProducts) :
       Sold(orders, SeedProducts[i].id) <= SeedProducts[i].stock

\* two checkouts of different customers are in flight for the same product,
\* one has succeeded and what is left does not cover the other
C2_Witness ==
  \E t, u \in Threads :
    /\ th[t].pc = "co_clear" /\ th[u].pc = "co_place"
    /\ th[t].customerId # th[u].customerId
    /\ \E i \in 1..Len(products) :
         /\ QtyOf(th[t].order.items, products[i].id) > 0
         /\ QtyOf(th[u].order.items, products[i].id) > products[i].stock
         /\ QtyOf(th[u].order.items, products[i].id) <= SeedProducts[i].stock

\* C3: the stock of every product is at least 0 in every reachable state.
C3_StockNonNegative ==
  \A i \in 1..Len(products) : products[i].stock >= 0

\* a checkout has taken the last units of a product
C3_Witness ==
  /\ Len(orders) > 0
  /\ \E i \in 1..Len(products) :
       products[i].stock = 0 /\ Sold(orders, products[i].id) > 0

CheckoutPcs == {"co_id", "co_place", "co_apply", "co_clear"}

\* C4: a checkout whose placeOrder fails changes neither the stock nor the
\* carts: none of its steps from reading the cart to the error response
\* changes a product or a cart; a checkout changes a cart only by its
\* clearCart, which it calls only after its own placeOrder returned true.
C4_FailedCheckoutKeepsState ==
  [][ \A t \in Threads :
        /\ (th[t].pc = "idle" /\ th'[t].pc = "co_id")
             => products' = products /\ carts' = carts
        /\ (th[t].pc \in {"co_id", "co_place"} /\ th'[t] # th[t])
             => products' = products /\ carts' = carts
        /\ (th[t].pc = "co_place" /\ th'[t].pc = "idle")
             => res'.kind \in {"ProductNotFound", "InsufficientStock"}
        /\ (th[t].pc \in CheckoutPcs /\ th'[t] # th[t] /\ carts' # carts)
             => /\ th[t].pc = "co_clear"
                /\ \E i \in 1..Len(orders) : orders[i] = th[t].order ]_vars

\* the scenario of the cart of 5 monitors against a stock of 2: the checkout
\* has failed, the stock is still 2 and the cart still holds its line
C4_Witness ==
  /\ res.kind = "InsufficientStock"
  /\ products[3].stock = 2
  /\ 1 \in DOMAIN carts
  /\ carts[1] = << CartItem(3, "Monitor 24-inch", 89900, 5) >>

\* C5: a checkout of an empty or absent cart fails with EmptyCart and leaves
\* the whole state unchanged.
C5_EmptyCheckoutChangesNothing ==
  [][ (\E t \in Threads :
         /\ th[t].pc = "idle" /\ th'[t].pc = "idle" /\ nreq' = nreq + 1
         /\ res'.t = t /\ res'.kind = "EmptyCart")
        => UNCHANGED << products, nextOrderId, carts, orders, allocated >> ]_vars

\* the sum over the lines of unitPrice times quantity
RECURSIVE TotalOf(_)
TotalOf(items) ==
  IF Len(items) = 0 THEN 0
  ELSE items[Len(items)].unitPrice * items[Len(items)].qty
       + TotalOf(SubSeq(items, 1, Len(items) - 1))

\* C6: a successful checkout returns an order whose lines are the cart lines
\* it read and whose total is the sum of unitPrice times quantity, takes each
\* line's quantity out of its product's stock and changes no other stock, and
\* leaves the cart empty; with no concurrent request of the same customer the
\* cart it clears is the cart it read.
C6_SuccessfulCheckout ==
  [][ \A t \in Threads :
        /\ (th[t].pc = "idle" /\ th'[t].pc = "co_id")
             => th'[t].cart = GetCart(carts, th'[t].customerId)
        /\ (th[t].pc = "co_apply" /\ th'[t].pc = "co_clear")
             => products' = AllDecremented(products, th[t].cart)
        /\ (th[t].pc = "co_clear" /\ th'[t].pc = "idle")
             => /\ res'.t = t /\ res'.status = 200 /\ res'.kind = "order"
                /\ res'.order.items = th[t].cart
                /\ res'.order.total = TotalOf(th[t].cart)
                /\ GetCart(carts', th[t].customerId) = << >>
                /\ ~overlap[t] => GetCart(carts, th[t].customerId) = th[t].cart
    ]_vars

\* the scenario of the spec: adds of 2 and 3 keyboards at 299.90, checkout:
\* total 1499.50, stock 5, cart empty
C6_Witness ==
  /\ res.kind = "order"
  /\ res.order.items = << CartItem(1, "Teclado Mecanico", 29990, 5) >>
  /\ res.order.total = 149950
  /\ products[1].stock = 5
  /\ GetCart(carts, 1) = << >>
  /\ ~overlap[res.t]

\* C7: no cart holds two lines with the same productId, and the cart of a
\* customer holds a line for a product exactly when addToCart was called for
\* it since the last clearCart, with the sum of the qty values as quantity.
C7_MergeProperty ==
  \A c \in CustomerIds :
    LET cart == GetCart(carts, c)
    IN /\ \A i, j \in 1..Len(cart) :
            cart[i].productId = cart[j].productId => i = j
       /\ \A p \in ProductIds :
            IF added[c][p].n = 0
            THEN \A i \in 1..Len(cart) : cart[i].productId # p
            ELSE \E i \in 1..Len(cart) :
                   cart[i].productId = p /\ cart[i].qty = added[c][p].sum

\* three addToCart calls for the same customer and product, one line
C7_Witness ==
  \E c \in CustomerIds, p \in ProductIds :
    /\ added[c][p].n = 3
    /\ Len(GetCart(carts, c)) = 1
    /\ GetCart(carts, c)[1].qty = added[c][p].sum

\* C8: addToCart called with qty <= 0 leaves the customer's cart unchanged.
C8_CoreRejectsNonPositiveQty ==
  [][ (IsCall("addToCart") /\ call'.items[1].qty <= 0)
        => GetCart(carts', call'.customerId) = GetCart(carts, call'.customerId)
    ]_vars

\* C9: getCart right after clearCart of the same customer returns the empty
\* sequence; clearCart removes the customer's cart and changes no other
\* customer's cart; clearing an absent cart or clearing twice changes nothing.
C9_ClearCart ==
  [][ /\ (IsCall("getCart") /\ call.op = "clearCart"
            /\ call.customerId = call'.customerId)
           => call'.value = << >>
      /\ IsCall("clearCart") =>
           LET c == call'.customerId
           IN /\ GetCart(carts', c) = << >>
              /\ \A x \in CustomerIds \ {c} :
                   /\ x \in DOMAIN carts' <=> x \in DOMAIN carts
                   /\ x \in DOMAIN carts => carts'[x] = carts[x]
              /\ (c \notin DOMAIN carts
                    \/ (call.op = "clearCart" /\ call.customerId = c))
                   => carts' = carts
    ]_vars

\* clearCart has removed a cart that held lines while another customer has a
\* cart with lines
C9_Witness ==
  /\ call.op = "clearCart"
  /\ call.before # << >>
  /\ call.customerId \notin DOMAIN carts
  /\ \E x \in DOMAIN carts : carts[x] # << >>

\* C10: the ids returned by generateOrderId start at 1 and are strictly
\* increasing in allocation order, and no two orders carry the same id,
\* whether placed or still in a handler.
C10_OrderIdsUnique ==
  /\ Len(allocated) > 0 => allocated[1] = 1
  /\ \A i, j \in 1..Len(allocated) : i < j => allocated[i] < allocated[j]
  /\ \A i, j \in 1..Len(orders) : i # j => orders[i].id # orders[j].id
  /\ \A t, u \in Threads :
       (t # u /\ th[t].pc \in CheckoutPcs \ {"co_id"}
               /\ th[u].pc \in CheckoutPcs \ {"co_id"})
         => th[t].order.id # th[u].order.id
  /\ \A t \in Threads :
       th[t].pc \in CheckoutPcs \ {"co_id"}
         => \E i \in 1..Len(allocated) : allocated[i] = th[t].order.id

\* a checkout failed after allocating id 1, the next order carries id 2
C10_Witness ==
  /\ allocated = << 1, 2 >>
  /\ Len(orders) = 1
  /\ orders[1].id = 2
  /\ \A t \in Threads : th[t].pc = "idle"

\* C17: a placeOrder call with a line whose product is not in the catalog
\* fails with ProductNotFound and changes no stock, wherever the line stands
\* and whatever the stock of the other lines' products.
C17_UnknownProductNotFound ==
  [][ (/\ IsCall("placeOrder")
       /\ \E i \in 1..Len(call'.items) :
            FindProduct(products, call'.items[i].productId) = 0)
        => /\ ~call'.ok
           /\ call'.err = "ProductNotFound"
           /\ products' = products ]_vars

\* the positions at which the next step of a thread reads or writes a
\* product of the catalog
CatalogPcs ==
  {"add_find_locked", "prod_find_locked", "add_stock", "prod_json",
   "co_place_locked", "co_apply"}

\* C11: every step of a thread that reads or writes catalog data (stock,
\* name, price), those of GET /product and POST /cart/add included, is taken
\* while that thread holds the Store mutex.
C11_CatalogUnderStoreMutex ==
  [][ \A t \in Threads :
        (th[t].pc \in CatalogPcs /\ th'[t] # th[t]) => storeMtx = t ]_vars

\* the positions of a checkout in their order, and the mutex held at each
\* position of a handler
CheckoutSeq ==
  << "co_cart", "co_cart_locked", "co_id", "co_id_locked", "co_place",
     "co_place_locked", "co_apply", "co_clear", "co_clear_locked" >>

LockHeld(pc) ==
  IF pc \in {"add_find_locked", "prod_find_locked", "co_id_locked",
             "co_place_locked", "co_apply"} THEN "store"
  ELSE IF pc \in {"add_cart_locked", "cart_locked", "co_cart_locked",
                  "co_clear_locked"} THEN "sessions"
  ELSE "none"

C16_RequestsComplete ==
  \A t \in Threads :
    (th[t].pc # "idle") ~> (th[t].pc = "idle" /\ res.t = t)

\* a thread waits for the Store mutex held by the other thread in placeOrder
\* while the SessionManager mutex is free
C16_Witness ==
  \E t, u \in Threads :
    /\ th[t].pc \in StoreLockPcs
    /\ th[u].pc = "co_apply" /\ storeMtx = u
    /\ sessMtx = 0

\* the stock of the product with this id
StockOf(prods, id) == prods[FindProduct(prods, id)].stock

\* C12: a POST /cart/add that finds the product's stock at zero is rejected
\* and changes no cart, and whatever the checkouts running beside it no step
\* creates or increases a cart line of a product whose stock is 0 at that
\* step.
C12_NoAddAtZeroStock ==
  [][ \A t \in Threads :
        /\ (th[t].pc = "add_stock" /\ th'[t] # th[t]
              /\ products[th[t].p].stock = 0)
             => /\ res'.t = t /\ res'.status = 400 /\ res'.kind = "OutOfStock"
                /\ carts' = carts
        /\ (th[t].pc = "add_cart" /\ th'[t] # th[t])
             => StockOf(products, th[t].item.productId) > 0 ]_vars

\* C13: an add-to-cart of a customer that completes between the cart read and
\* the cart clear of that customer's checkout is lost: the order returned
\* holds the lines read, the cart is empty afterwards, and the quantity the
\* cart had gained in between is in neither.
C13_LostAdd ==
  [][ \A t \in Threads :
        (th[t].pc = "co_clear" /\ th'[t].pc = "idle") =>
          LET c == th[t].customerId
              now == GetCart(carts, c)
          IN /\ res'.kind = "order" /\ res'.order.items = th[t].cart
             /\ GetCart(carts', c) = << >>
             /\ \A i \in 1..Len(now) :
                  now[i].qty > LineQty(th[t].cart, now[i].productId)
                    => [customerId |-> c, productId |-> now[i].productId,
                        qty |-> now[i].qty
                                  - LineQty(th[t].cart, now[i].productId)]
                         \in hist'.dropped ]_vars

\* customer 1 added 2 keyboards, the checkout read them, an add of 2 more
\* returned ok before the clear: the order holds 2, the cart is empty
C13_Witness ==
  /\ nreq = 3
  /\ \A t \in Threads : th[t].pc = "idle"
  /\ res.kind = "order"
  /\ res.order.items = << CartItem(1, "Teclado Mecanico", 29990, 2) >>
  /\ hist.dropped = {[customerId |-> 1, productId |-> 1, qty |-> 2]}
  /\ GetCart(carts, 1) = << >>
  /\ products[1].stock = 8

\* C14: placeOrder succeeds whenever the stock covers every line, also when
\* an order made of the same cart has already been placed: each success
\* takes the lines out of the stock again and records an order with an id no
\* placed order carries, so two concurrent checkouts of one customer that
\* read the same cart both succeed when the stock covers twice the cart.
C14_DoubleCheckout ==
  [][ \A t \in Threads :
        LET items == th[t].order.items
        IN /\ (th[t].pc = "co_place" /\ th'[t] # th[t])
                => (th'[t].pc = "co_apply"
                      <=> \A i \in 1..Len(items) :
                            StockOf(products, items[i].productId)
                              >= items[i].qty)
           /\ (th[t].pc = "co_apply" /\ th'[t] # th[t])
                => /\ products' = AllDecremented(products, items)
                   /\ orders' = Append(orders, th[t].order)
                   /\ \A i \in 1..Len(orders) : orders[i].id # th[t].order.id
    ]_vars

\* one add of 2 keyboards and two checkouts of customer 1: two orders with
\* ids 1 and 2 and the same line, the stock of 10 down by 4
C14_Witness ==
  /\ nreq = 3
  /\ \A t \in Threads : th[t].pc = "idle"
  /\ Len(orders) = 2
  /\ orders[1].items = << CartItem(1, "Teclado Mecanico", 29990, 2) >>
  /\ orders[2].items = orders[1].items
  /\ orders[1].id # orders[2].id
  /\ products[1].stock = 6
  /\ GetCart(carts, 1) = << >>

\* C18: for every product the seeded stock minus the current stock is the
\* sum of its quantities over the orders placed with success; no step raises
\* a stock, and the step that places an order takes exactly the quantities
\* of its lines.
C18_StockConservation ==
  /\ [](\A i \in 1..Len(SeedProducts) :
          SeedProducts[i].stock - products[i].stock
            = Sold(orders, SeedProducts[i].id))
  /\ [][ /\ \A i \in 1..Len(SeedProducts) :
              products'[i].stock <= products[i].stock
         /\ products' # products
              => \E t \in Threads :
                   /\ th[t].pc = "co_apply"
                   /\ orders' = Append(orders, th[t].order)
                   /\ products' = AllDecremented(products, th[t].order.items)
     ]_vars

\* two orders placed, the second of two lines: 2 keyboards and 2 monitors
C18_Witness ==
  /\ Len(orders) = 2
  /\ Len(orders[2].items) = 2
  /\ products[1].stock < 10
  /\ products[3].stock = 0

\* C19: once a checkout of a customer whose requests never overlapped failed
\* with InsufficientStock, the customer's cart stays short of stock and every
\* later checkout of that customer fails with InsufficientStock.
C19_StuckCart ==
  /\ [](\A c \in CustomerIds :
          (hist.failed[c] > 0 /\ c \notin hist.raced)
            => LET k == CheckStock(products, GetCart(carts, c))
               IN ~k.ok /\ k.err = "InsufficientStock")
  /\ [][ \A t \in Threads :
           (/\ th[t].pc \in CheckoutPcs /\ th'[t].pc = "idle"
            /\ hist.failed[th[t].customerId] > 0
            /\ th[t].customerId \notin hist.raced)
             => /\ res'.t = t /\ res'.status = 400
                /\ res'.kind = "InsufficientStock"
                /\ carts' = carts /\ products' = products ]_vars

\* the checkout of a cart of 4 monitors against a stock of 2 has failed twice
C19_Witness ==
  \E c \in CustomerIds :
    /\ hist.failed[c] = 2
    /\ c \notin hist.raced
    /\ res.kind = "InsufficientStock"
    /\ \A t \in Threads : th[t].pc = "idle"

====
